---- MODULE Spec2Model ----
(***************************************************************************)
(* Model of the PaddleOCR HTTP service (src/app.py): the /health and /ocr  *)
(* handlers, the request validation, the temp-file life cycle around       *)
(* ocr.predict and the adapter that flattens the engine's result.          *)
(*                                                                         *)
(* Strings that the code inspects (file names, recognised texts, base64)   *)
(* are sequences of characters; strings it only passes on (error           *)
(* messages) are TLA+ strings.  A float is a fraction [num, den].          *)
(***************************************************************************)
EXTENDS Integers, Sequences, FiniteSets, TLC

\* ------------------------------------------------------------------ bounds
MaxReq == 2      \* number of POST /ocr requests (one thread each)
MaxPages == 2    \* pages in one engine result
MaxItems == 2    \* text items on one page
MaxBytes == 3    \* leading bytes of an uploaded image

\* --------------------------------------------------------------- constants
MAX_CONTENT_LENGTH == 5 * 1024 * 1024

Reqs == 1..MaxReq

\* ------------------------------------------------------------ string helpers
UpperChars == <<"A","B","C","D","E","F","G","H","I","J","K","L","M",
                "N","O","P","Q","R","S","T","U","V","W","X","Y","Z">>
LowerChars == <<"a","b","c","d","e","f","g","h","i","j","k","l","m",
                "n","o","p","q","r","s","t","u","v","w","x","y","z">>

\* str.lower() on one character
LowerChar(c) ==
    IF \E i \in 1..26 : UpperChars[i] = c
    THEN LowerChars[CHOOSE i \in 1..26 : UpperChars[i] = c]
    ELSE c

\* str.lower()
Lower(s) == [i \in 1..Len(s) |-> LowerChar(s[i])]

\* str.endswith(suffix)
EndsWith(s, suf) ==
    /\ Len(suf) <= Len(s)
    /\ \A i \in 1..Len(suf) : s[Len(s) - Len(suf) + i] = suf[i]

\* the tuple of extensions of line 140
AllowedExtensions ==
    { <<".","p","n","g">>, <<".","j","p","g">>, <<".","j","p","e","g">>,
      <<".","b","m","p">>, <<".","t","i","f","f">>, <<".","w","e","b","p">> }

\* a plausible slip: the extensions are compared without their dot
AllowedFileNoDot(filename) ==
    \E suf \in AllowedExtensions : EndsWith(Lower(filename), Tail(suf))

\* file.filename.lower().endswith((...)), line 140
AllowedFile(filename) ==
    \E suf \in AllowedExtensions : EndsWith(Lower(filename), suf)

Whitespace == {" ", "\t", "\n"}

\* a plausible slip: the text itself is tested, not text.strip()
StripNonEmptyNoStrip(text) == Len(text) > 0

\* truth value of text.strip(): some character is not whitespace
StripNonEmpty(text) == \E i \in 1..Len(text) : text[i] \notin Whitespace

RECURSIVE Join(_)
\* ' '.join(texts), line 87
Join(texts) ==
    IF texts = <<>> THEN <<>>
    ELSE IF Len(texts) = 1 THEN texts[1]
    ELSE texts[1] \o <<" ">> \o Join(Tail(texts))

RECURSIVE Sum(_)
\* sum(confidences), line 88
Sum(xs) == IF xs = <<>> THEN 0 ELSE xs[1] + Sum(Tail(xs))

Zero == [num |-> 0, den |-> 1]

\* a plausible slip: the mean of one item is taken for the mean of all
MeanFirstOnly(confidences) ==
    IF confidences # <<>>
    THEN [num |-> confidences[1], den |-> 1]
    ELSE Zero

\* sum(confidences) / len(confidences) if confidences else 0.0, line 88
Mean(confidences) ==
    IF confidences # <<>>
    THEN [num |-> Sum(confidences), den |-> Len(confidences)]
    ELSE Zero

\* ------------------------------------------------------------ response bodies
\* A JSON body: keys is the set of keys present; the other fields hold the
\* values of the keys that are present and a default otherwise.
SuccessBody(text, confidence, details) ==
    [success |-> TRUE, keys |-> {"success", "text", "confidence", "details"},
     text |-> text, confidence |-> confidence, details |-> details,
     error |-> ""]

FailureBody(error) ==
    [success |-> FALSE, keys |-> {"success", "error"},
     text |-> <<>>, confidence |-> Zero, details |-> <<>>,
     error |-> error]

NoBody == [success |-> FALSE, keys |-> {},
           text |-> <<>>, confidence |-> Zero, details |-> <<>>, error |-> ""]

\* ------------------------------------------------------ the engine's results
\* A text item is a dict that may lack any of its keys, or something that
\* is no dict at all (text_info.get then raises AttributeError).
Item(text, score) ==
    [kind |-> "dict", has |-> {"text", "score", "bbox"},
     text |-> text, score |-> score, bbox |-> <<1, 2>>]

ItemNoText == [kind |-> "dict", has |-> {"score"},
               text |-> <<>>, score |-> 70, bbox |-> <<>>]
ItemNoScore == [kind |-> "dict", has |-> {"text"},
                text |-> <<"b", " ">>, score |-> 0, bbox |-> <<>>]
ItemNotADict == [kind |-> "other", has |-> {},
                 text |-> <<>>, score |-> 0, bbox |-> <<>>]

\* the items the bounded results are built from
Items == { Item(<<"a">>, 90), ItemNoScore, Item(<<" ">>, 50), ItemNotADict }

SeqsUpTo(S, n) == UNION { [1..k -> S] : k \in 0..n }

\* a page: hasattr(res, 'texts') and the list res.texts
PageNoTexts == [hasTexts |-> FALSE, texts |-> <<>>]
Pages == {PageNoTexts} \cup
         { [hasTexts |-> TRUE, texts |-> ts] : ts \in SeqsUpTo(Items, MaxItems) }

\* what ocr.predict returns: None or a list of pages
ResultNone == [isNone |-> TRUE, pages |-> <<>>]
EngineResults == {ResultNone} \cup
    { [isNone |-> FALSE, pages |-> ps] : ps \in SeqsUpTo(Pages, MaxPages) }

\* further results, with items that have an empty text or no text at all
MoreResults ==
    { [isNone |-> FALSE, pages |-> << [hasTexts |-> TRUE, texts |-> ts] >>] :
        ts \in { << ItemNoText >>,
                 << Item(<<>>, 60) >>,
                 << ItemNoText, Item(<<"a">>, 90) >>,
                 << Item(<<"c">>, 40), ItemNoText, Item(<<"a">>, 90) >>,
                 << Item(<<>>, 60), Item(<<" ", "\t">>, 30) >> } }

\* text_info.get('text', ''), .get('score', 0.0), .get('bbox', [])
GetText(item) == IF "text" \in item.has THEN item.text ELSE <<>>
GetScore(item) == IF "score" \in item.has THEN item.score ELSE 0
GetBbox(item) == IF "bbox" \in item.has THEN item.bbox ELSE <<>>

EmptyAcc == [texts |-> <<>>, confidences |-> <<>>, details |-> <<>>,
             raised |-> FALSE]

RECURSIVE ProcessItems(_, _)
\* the inner loop, lines 72-84
ProcessItems(items, acc) ==
    IF items = <<>> \/ acc.raised THEN acc
    ELSE LET text_info == items[1] IN
         IF text_info.kind # "dict"
         THEN [acc EXCEPT !.raised = TRUE]
         ELSE LET text == GetText(text_info)
                  confidence == GetScore(text_info)
                  bbox == GetBbox(text_info)
              IN  IF StripNonEmpty(text)
                  THEN ProcessItems(Tail(items),
                         [acc EXCEPT
                            !.texts = Append(@, text),
                            !.confidences = Append(@, confidence),
                            !.details = Append(@, [text |-> text,
                                                   confidence |-> confidence,
                                                   bbox |-> bbox])])
                  ELSE ProcessItems(Tail(items), acc)

RECURSIVE ProcessPages(_, _)
\* the outer loop, lines 69-84
ProcessPages(pages, acc) ==
    IF pages = <<>> \/ acc.raised THEN acc
    ELSE LET res == pages[1] IN
         IF res.hasTexts /\ res.texts # <<>>
         THEN ProcessPages(Tail(pages), ProcessItems(res.texts, acc))
         ELSE ProcessPages(Tail(pages), acc)

\* a plausible slip: the loop swallows the exception and the items read so
\* far are returned as a success
ProcessResultSwallowing(result) ==
    IF result.isNone \/ result.pages = <<>>
    THEN SuccessBody(<<>>, Zero, <<>>)
    ELSE LET acc == ProcessPages(result.pages, EmptyAcc) IN
         SuccessBody(Join(acc.texts), Mean(acc.confidences), acc.details)

\* process_image from the return of ocr.predict on, lines 54-102
ProcessResult(result) ==
    IF result.isNone \/ result.pages = <<>>
    THEN SuccessBody(<<>>, Zero, <<>>)
    ELSE LET acc == ProcessPages(result.pages, EmptyAcc) IN
         IF acc.raised
         THEN FailureBody("AttributeError")
         ELSE SuccessBody(Join(acc.texts), Mean(acc.confidences), acc.details)

\* ------------------------------------------------------------------ base64
\* A base64 string is a sequence of symbols: 0..63 are the alphabet,
\* PAD is '=' and JUNK is any character outside the alphabet.
PAD == 64
JUNK == 65

RECURSIVE B64Encode(_)
\* base64.b64encode, as the client uses it (test_api.py line 91)
B64Encode(bytes) ==
    IF bytes = <<>> THEN <<>>
    ELSE IF Len(bytes) = 1
    THEN << bytes[1] \div 4, (bytes[1] % 4) * 16, PAD, PAD >>
    ELSE IF Len(bytes) = 2
    THEN << bytes[1] \div 4,
            (bytes[1] % 4) * 16 + bytes[2] \div 16,
            (bytes[2] % 16) * 4, PAD >>
    ELSE << bytes[1] \div 4,
            (bytes[1] % 4) * 16 + bytes[2] \div 16,
            (bytes[2] % 16) * 4 + bytes[3] \div 64,
            bytes[3] % 64 >>
         \o B64Encode(SubSeq(bytes, 4, Len(bytes)))

RECURSIVE B64Scan(_, _, _, _, _)
\* binascii.a2b_base64 without strict mode: junk is skipped, a complete
\* pad sequence ends the input, a dangling group is an error
B64Scan(s, quad_pos, leftchar, pads, out) ==
    IF s = <<>>
    THEN [ok |-> quad_pos = 0, bytes |-> out]
    ELSE LET ch == s[1] rest == Tail(s) IN
         IF ch = PAD
         THEN IF quad_pos >= 2 /\ quad_pos + pads + 1 >= 4
              THEN [ok |-> TRUE, bytes |-> out]
              ELSE B64Scan(rest, quad_pos, leftchar,
                           IF quad_pos >= 2 THEN pads + 1 ELSE pads, out)
         ELSE IF ch >= 64
         THEN B64Scan(rest, quad_pos, leftchar, pads, out)
         ELSE IF quad_pos = 0
         THEN B64Scan(rest, 1, ch, 0, out)
         ELSE IF quad_pos = 1
         THEN B64Scan(rest, 2, ch % 16, 0,
                      Append(out, leftchar * 4 + ch \div 16))
         ELSE IF quad_pos = 2
         THEN B64Scan(rest, 3, ch % 4, 0,
                      Append(out, leftchar * 16 + ch \div 4))
         ELSE B64Scan(rest, 0, 0, 0, Append(out, leftchar * 64 + ch))

\* a plausible slip: a decoder that rejects padded input
B64DecodeNoPadding(s) ==
    IF \E i \in 1..Len(s) : s[i] = PAD
    THEN [ok |-> FALSE, bytes |-> <<>>]
    ELSE B64Scan(s, 0, 0, 0, <<>>)

\* base64.b64decode(data['image']), line 165
B64Decode(s) == B64Scan(s, 0, 0, 0, <<>>)

\* -------------------------------------------------------------- the images
\* The leading bytes of an image file: a magic byte, a colour-type byte and
\* the pixel data.  Image.open reads the header only; the pixel data is
\* loaded by the first operation that needs it (split, convert, save).
ByteVals == {0, 2, 4, 6, 137}
ImageBytes == SeqsUpTo(ByteVals, MaxBytes)

Magic == 137

ColourTypes == {0, 2, 4, 6}

ModeOf(colourType) ==
    CASE colourType = 0 -> "L"
      [] colourType = 2 -> "RGB"
      [] colourType = 4 -> "LA"
      [] OTHER -> "RGBA"

NoImage == [mode |-> "", intact |-> FALSE]

\* Image.open(...), lines 147 and 166
ImageOpen(bytes) ==
    IF Len(bytes) >= 2 /\ bytes[1] = Magic /\ bytes[2] \in ColourTypes
    THEN [ok |-> TRUE,
          image |-> [mode |-> ModeOf(bytes[2]), intact |-> Len(bytes) >= 3]]
    ELSE [ok |-> FALSE, image |-> NoImage]

\* the conversion to RGB, lines 180-188: split and convert load the pixels
\* and raise on a truncated file; an RGB image is passed on untouched
Normalize(image) ==
    IF image.mode \in {"RGBA", "LA"}
    THEN [ok |-> image.intact, image |-> [mode |-> "RGB", intact |-> TRUE]]
    ELSE IF image.mode # "RGB"
    THEN [ok |-> image.intact, image |-> [mode |-> "RGB", intact |-> TRUE]]
    ELSE [ok |-> TRUE, image |-> image]

\* ------------------------------------------------------------ the requests
NoJson == [kind |-> "none", image |-> <<>>]

MultipartRequest(length, filename, bytes) ==
    [ctype |-> "multipart", length |-> length, hasFile |-> TRUE,
     filename |-> filename, bytes |-> bytes, json |-> NoJson]

MultipartNoFile(length) ==
    [ctype |-> "multipart", length |-> length, hasFile |-> FALSE,
     filename |-> <<>>, bytes |-> <<>>, json |-> NoJson]

JsonRequest(length, kind, image) ==
    [ctype |-> "json", length |-> length, hasFile |-> FALSE,
     filename |-> <<>>, bytes |-> <<>>,
     json |-> [kind |-> kind, image |-> image]]

OtherRequest(length) ==
    [ctype |-> "other", length |-> length, hasFile |-> FALSE,
     filename |-> <<>>, bytes |-> <<>>, json |-> NoJson]

NoRequest == OtherRequest(0)

\* ----------------------------------------------------------- the responses
Response(status, body) == [status |-> status, body |-> body]

NoResponse == Response(0, NoBody)

\* the body of the catch-all branch, lines 207-213
ServerErrorBody(error) ==
    [FailureBody(error) EXCEPT
       !.keys = @ \cup {"full_text", "detailed_results", "text_count"}]

\* too_large, lines 217-223
too_large == Response(413, FailureBody("File too large. Maximum size is 5MB."))

\* ------------------------------------------------------------ extract_text
\* Werkzeug reads the body on the first access to request.files (line 131)
\* and raises RequestEntityTooLarge when the declared length exceeds
\* MAX_CONTENT_LENGTH (line 25)
RequestFilesRaises(request) == request.length > MAX_CONTENT_LENGTH

Respond(status, body, opened) ==
    [kind |-> "respond", resp |-> Response(status, body),
     image |-> NoImage, opened |-> opened, escaped |-> 0]

Proceed(image) ==
    [kind |-> "process", resp |-> NoResponse,
     image |-> image, opened |-> TRUE, escaped |-> 0]

\* lines 179-194 and the catch-all of lines 205-213 around them
NormalizeAndProceed(image) ==
    LET n == Normalize(image) IN
    IF n.ok THEN Proceed(n.image)
    ELSE Respond(500, ServerErrorBody("Server error: OSError"), TRUE)

\* the multipart branch, lines 132-152
FileBranch(request) ==
    IF request.filename = <<>>
    THEN Respond(400, FailureBody("No file selected"), FALSE)
    ELSE IF ~AllowedFile(request.filename)
    THEN Respond(400, FailureBody("Unsupported file type"), FALSE)
    ELSE LET o == ImageOpen(request.bytes) IN
         IF o.ok THEN NormalizeAndProceed(o.image)
         ELSE Respond(400, FailureBody("Invalid image file"), TRUE)

\* the JSON branch, lines 155-171; get_json raises BadRequest on a body
\* that is no JSON, and the catch-all turns that into a 500
JsonBranch(request) ==
    IF request.json.kind = "malformed"
    THEN Respond(500, ServerErrorBody("Server error: 400 Bad Request"), FALSE)
    ELSE IF request.json.kind \in {"null", "noimage"}
    THEN Respond(400, FailureBody("Missing image data in JSON request"), FALSE)
    ELSE IF request.json.kind # "string"
    THEN Respond(400, FailureBody("Invalid base64 image data"), FALSE)
    ELSE LET d == B64Decode(request.json.image) IN
         IF ~d.ok
         THEN Respond(400, FailureBody("Invalid base64 image data"), FALSE)
         ELSE LET o == ImageOpen(d.bytes) IN
              IF o.ok THEN NormalizeAndProceed(o.image)
              ELSE Respond(400, FailureBody("Invalid base64 image data"), TRUE)

\* extract_text up to the call of process_image, lines 127-194, with the
\* catch-all of lines 205-213
View(request) ==
    IF RequestFilesRaises(request)
    THEN Respond(500, ServerErrorBody("Server error: 413 Request Entity Too Large"),
                 FALSE)
    ELSE IF request.ctype = "multipart" /\ request.hasFile
    THEN FileBranch(request)
    ELSE IF request.ctype = "json"
    THEN JsonBranch(request)
    ELSE Respond(400, FailureBody("No image provided"), FALSE)

\* Flask's dispatch: an HTTP error that escapes the view goes to the
\* registered error handler (lines 217-223); anything the view returns is
\* the response
Dispatch(outcome) ==
    IF outcome.escaped = 413 THEN too_large ELSE outcome.resp

\* result['image_info'] = ...; return jsonify(result), lines 196-203
Jsonify(result) ==
    Response(200, [result EXCEPT !.keys = @ \cup {"image_info"}])

\* ----------------------------------------------------------- input samples
Str_a_png == <<"a", ".", "p", "n", "g">>
Str_a_PNG == <<"a", ".", "P", "N", "G">>
Str_a_jpg == <<"a", ".", "j", "p", "g">>
Str_a_gif == <<"a", ".", "g", "i", "f">>
Str_png == <<"p", "n", "g">>

Filenames == { <<>>, Str_a_png, Str_a_PNG, Str_a_jpg, Str_a_gif, Str_png }

Small == 20 * 1024
TooBig == MAX_CONTENT_LENGTH + 1

RgbIntact == <<137, 2, 0>>
RgbTruncated == <<137, 2>>
RgbaIntact == <<137, 6, 0>>
GreyTruncated == <<137, 0>>
NotAnImage == <<0>>

\* the requests the server is driven with
Requests ==
    { MultipartRequest(Small, Str_a_png, RgbIntact),
      MultipartRequest(Small, Str_a_PNG, RgbaIntact),
      MultipartRequest(Small, Str_a_jpg, RgbTruncated),
      MultipartRequest(Small, Str_a_jpg, GreyTruncated),
      MultipartRequest(Small, Str_a_png, NotAnImage),
      MultipartRequest(Small, <<>>, RgbIntact),
      MultipartRequest(Small, Str_a_gif, RgbIntact),
      MultipartRequest(Small, Str_png, RgbIntact),
      MultipartRequest(MAX_CONTENT_LENGTH, Str_a_png, RgbIntact),
      MultipartRequest(TooBig, Str_a_png, RgbIntact),
      MultipartRequest(TooBig, Str_a_gif, RgbIntact),
      MultipartNoFile(Small),
      JsonRequest(Small, "string", B64Encode(RgbIntact)),
      JsonRequest(Small, "string", <<34>>),
      JsonRequest(Small, "malformed", <<>>),
      JsonRequest(Small, "noimage", <<>>),
      JsonRequest(Small, "number", <<>>),
      JsonRequest(TooBig, "string", B64Encode(RgbIntact)),
      OtherRequest(Small) }

PageOf(items) == [hasTexts |-> TRUE, texts |-> items]
ResultOf(pages) == [isNone |-> FALSE, pages |-> pages]

Raised == [raised |-> TRUE, result |-> ResultNone]
Returned(result) == [raised |-> FALSE, result |-> result]

\* what one call of ocr.predict can do: raise, or return a result
PredictOutcomes ==
    { Raised,
      Returned(ResultNone),
      Returned(ResultOf(<< PageNoTexts >>)),
      Returned(ResultOf(<< PageOf(<< Item(<<" ">>, 50) >>) >>)),
      Returned(ResultOf(<< PageOf(<< Item(<<"a">>, 90), Item(<<"b", " ">>, 40) >>) >>)),
      Returned(ResultOf(<< PageOf(<< ItemNotADict >>) >>)) }

\* -------------------------------------------------------------------- state
VARIABLES
    pc,            \* per request: "idle", "process", "predict", "done"
    req,           \* per request: the request received
    image,         \* per request: the image handed to process_image
    opened,        \* requests for which Image.open was called
    created,       \* requests for which a temp file was created
    disk,          \* temp files that exist (one name per request)
    predictCalls,  \* per request: calls of ocr.predict
    outcome,       \* per request: what ocr.predict did
    resp,          \* per request: the response sent
    health,        \* the last response of GET /health
    pair,          \* the image submitted through both encodings
    memo,          \* what save and predict did on that image
    uin,           \* an engine result handed to the adapter
    uout           \* what the adapter made of it

vars == << pc, req, image, opened, created, disk, predictCalls, outcome,
           resp, health, pair, memo, uin, uout >>

serverVars == << pc, req, image, opened, created, disk, predictCalls,
                 outcome, resp >>

NoOutcome == [raised |-> FALSE, result |-> ResultNone]
NoHealthBody == [status |-> "", service |-> "", version |-> "",
                 paddleocr_version |-> "", gpu_enabled |-> FALSE]
NoHealth == [served |-> FALSE, status |-> 0, body |-> NoHealthBody]
NoPair == [bytes |-> <<>>, filename |-> <<>>, size |-> 0]
NoMemo == [save |-> "unset", predictSet |-> FALSE, predict |-> NoOutcome]
NoOut == [ran |-> FALSE, body |-> NoBody]

InitServer ==
    /\ pc = [r \in Reqs |-> "idle"]
    /\ req = [r \in Reqs |-> NoRequest]
    /\ image = [r \in Reqs |-> NoImage]
    /\ opened = {}
    /\ created = {}
    /\ disk = {}
    /\ predictCalls = [r \in Reqs |-> 0]
    /\ outcome = [r \in Reqs |-> NoOutcome]
    /\ resp = [r \in Reqs |-> NoResponse]
    /\ health = NoHealth
    /\ memo = NoMemo

Init ==
    /\ InitServer
    /\ pair = NoPair
    /\ uin = ResultNone
    /\ uout = NoOut

\* ------------------------------------------------------------------ actions
\* extract_text, lines 127-194: parse, validate, open and normalise
ReceiveRequest(r, q) ==
    /\ LET v == View(q) IN
       /\ req' = [req EXCEPT ![r] = q]
       /\ opened' = IF v.opened THEN opened \cup {r} ELSE opened
       /\ IF v.kind = "respond"
          THEN /\ resp' = [resp EXCEPT ![r] = Dispatch(v)]
               /\ pc' = [pc EXCEPT ![r] = "done"]
               /\ image' = image
          ELSE /\ image' = [image EXCEPT ![r] = v.image]
               /\ pc' = [pc EXCEPT ![r] = "process"]
               /\ resp' = resp
    /\ UNCHANGED << created, disk, predictCalls, outcome, health, pair, memo,
                    uin, uout >>

Receive(r) ==
    /\ pc[r] = "idle"
    /\ \E q \in Requests : ReceiveRequest(r, q)

\* what image_data.save can do: a truncated image cannot be encoded; with
\* a deterministic environment the first outcome on the image is repeated
SaveOutcomes(r, det) ==
    IF ~image[r].intact THEN {"raise"}
    ELSE IF det /\ memo.save # "unset" THEN {memo.save}
    ELSE {"ok", "raise"}

\* process_image, lines 42-49: create the temp file, save the image into
\* it and call ocr.predict; an exception leaves through line 97
Save(r, det) ==
    /\ pc[r] = "process"
    /\ created' = created \cup {r}
    /\ disk' = disk \cup {r}
    /\ \E o \in SaveOutcomes(r, det) :
         /\ memo' = IF det /\ image[r].intact
                    THEN [memo EXCEPT !.save = o] ELSE memo
         /\ IF o = "ok"
            THEN /\ pc' = [pc EXCEPT ![r] = "predict"]
                 /\ predictCalls' = [predictCalls EXCEPT ![r] = @ + 1]
                 /\ resp' = resp
            ELSE /\ pc' = [pc EXCEPT ![r] = "done"]
                 /\ resp' = [resp EXCEPT ![r] = Jsonify(FailureBody("save failed"))]
                 /\ predictCalls' = predictCalls
    /\ UNCHANGED << req, image, opened, outcome, health, pair, uin, uout >>

EngineOutcomes(det) ==
    IF det /\ memo.predictSet THEN {memo.predict} ELSE PredictOutcomes

\* process_image, lines 49-102, and extract_text, lines 196-203: predict
\* returns or raises, the temp file is unlinked after a return, the result
\* is flattened and the response is sent
PredictReturn(r, det) ==
    /\ pc[r] = "predict"
    /\ \E o \in EngineOutcomes(det) :
         /\ outcome' = [outcome EXCEPT ![r] = o]
         /\ memo' = IF det
                    THEN [memo EXCEPT !.predictSet = TRUE, !.predict = o]
                    ELSE memo
         /\ IF o.raised
            THEN /\ disk' = disk
                 /\ resp' = [resp EXCEPT ![r] = Jsonify(FailureBody("predict failed"))]
            ELSE /\ disk' = disk \ {r}
                 /\ resp' = [resp EXCEPT ![r] = Jsonify(ProcessResult(o.result))]
    /\ pc' = [pc EXCEPT ![r] = "done"]
    /\ UNCHANGED << req, image, opened, created, predictCalls, health, pair,
                    uin, uout >>

\* a plausible slip: a health body that reports the load of the server
health_check_reporting_load ==
    [status |-> IF \E r \in Reqs : pc[r] = "predict" THEN "busy" ELSE "healthy",
     service |-> "paddle-ocr-api", version |-> "1.0.0",
     paddleocr_version |-> "3.2", gpu_enabled |-> FALSE]

\* health_check, lines 104-113: the body handed to jsonify
health_check ==
    [status |-> "healthy", service |-> "paddle-ocr-api", version |-> "1.0.0",
     paddleocr_version |-> "3.2", gpu_enabled |-> FALSE]

\* GET /health
Health ==
    /\ health' = [served |-> TRUE, status |-> 200, body |-> health_check]
    /\ UNCHANGED << serverVars, pair, memo, uin, uout >>

Next ==
    \/ \E r \in Reqs : Receive(r)
    \/ \E r \in Reqs : Save(r, FALSE)
    \/ \E r \in Reqs : PredictReturn(r, FALSE)
    \/ Health

Spec == Init /\ [][Next]_vars

\* ------------------------------------------- one image through both encodings
Sizes == { Small, 4 * 1024 * 1024, TooBig }

\* the length of the base64 text of n bytes
B64Length(n) == 4 * ((n + 2) \div 3)

\* request 1 uploads the image as multipart field 'image', request 2 sends
\* the base64 of the same bytes as JSON (test_api.py, lines 62-109); the
\* framing bytes around the payload are left out of the lengths
PairRequest(r) ==
    IF r = 1
    THEN MultipartRequest(pair.size, pair.filename, pair.bytes)
    ELSE JsonRequest(B64Length(pair.size), "string", B64Encode(pair.bytes))

InitPair ==
    /\ InitServer
    /\ pair \in [bytes : ImageBytes, filename : Filenames, size : Sizes]
    /\ uin = ResultNone
    /\ uout = NoOut

ReceivePair(r) ==
    /\ r \in {1, 2}
    /\ pc[r] = "idle"
    /\ ReceiveRequest(r, PairRequest(r))

NextPair ==
    \/ \E r \in Reqs : ReceivePair(r)
    \/ \E r \in Reqs : Save(r, TRUE)
    \/ \E r \in Reqs : PredictReturn(r, TRUE)

SpecPair == InitPair /\ [][NextPair]_vars

\* ------------------------------------------------- the adapter on its own
InitUnpack ==
    /\ InitServer
    /\ pair = NoPair
    /\ uin \in EngineResults \cup MoreResults
    /\ uout = NoOut

\* process_image from line 54 on, applied to the engine result uin
Unpack ==
    /\ ~uout.ran
    /\ uout' = [ran |-> TRUE, body |-> ProcessResult(uin)]
    /\ UNCHANGED << serverVars, health, pair, memo, uin >>

NextUnpack == Unpack

SpecUnpack == InitUnpack /\ [][NextUnpack]_vars

\* ============================================================== properties
Done(r) == pc[r] = "done"

\* the file name ends, whatever its case, in one of the six extensions
EndsInAllowedExtension(name) ==
    \E ext \in AllowedExtensions :
        /\ Len(name) >= Len(ext)
        /\ Lower(SubSeq(name, Len(name) - Len(ext) + 1, Len(name))) = ext

IsUpload(r) == req[r].ctype = "multipart" /\ req[r].hasFile

Untouched(r) ==
    /\ r \notin opened
    /\ r \notin created
    /\ predictCalls[r] = 0

\* C1: once the response of a request that reached process_image has been
\* returned, the temp file created for it no longer exists, on the success
\* path and on the failure paths alike.
C1_TempFileRemoved ==
    \A r \in Reqs : (Done(r) /\ r \in created) => r \notin disk

\* C2: a POST /ocr request whose payload exceeds MAX_CONTENT_LENGTH gets
\* HTTP 413 with body {success: false, error}, for the multipart and the
\* JSON shape.
C2_OversizeIs413 ==
    \A r \in Reqs :
        (Done(r) /\ req[r].length > MAX_CONTENT_LENGTH) =>
            /\ resp[r].status = 413
            /\ ~resp[r].body.success
            /\ "error" \in resp[r].body.keys

\* C3 as stated: every multipart upload whose file name does not end in an
\* allowed extension is answered with HTTP 400 and success=false, and the
\* image is never opened, no temp file is created, the engine is not called.
C3_DisallowedIs400 ==
    \A r \in Reqs :
        (IsUpload(r) /\ ~EndsInAllowedExtension(req[r].filename)) =>
            /\ Untouched(r)
            /\ Done(r) => (resp[r].status = 400 /\ ~resp[r].body.success)

\* C3 as amended: the same, with the 400 promised only to uploads whose
\* payload does not exceed the size limit; for every upload with such a
\* name the image is never opened, no temp file is created and the engine
\* is not called.
C3_DisallowedWithinLimitIs400 ==
    \A r \in Reqs :
        (IsUpload(r) /\ ~EndsInAllowedExtension(req[r].filename)) =>
            /\ Untouched(r)
            /\ (Done(r) /\ req[r].length <= MAX_CONTENT_LENGTH) =>
                   (resp[r].status = 400 /\ ~resp[r].body.success)

C3_Witness ==
    \E r \in Reqs :
        /\ Done(r) /\ IsUpload(r)
        /\ req[r].filename = Str_a_gif
        /\ req[r].length <= MAX_CONTENT_LENGTH
        /\ resp[r].status = 400

\* C4: every POST /ocr response is a success body with HTTP 200 or a
\* failure body with HTTP 400, 413 or 500.
C4_StatusAgreesWithSuccess ==
    \A r \in Reqs :
        Done(r) =>
            \/ /\ resp[r].body.success
               /\ resp[r].status = 200
               /\ {"text", "confidence", "details"} \subseteq resp[r].body.keys
            \/ /\ ~resp[r].body.success
               /\ "error" \in resp[r].body.keys
               /\ resp[r].status \in {400, 413, 500}

\* some text item of the result is not a dict, so that unpacking raises
UnpackRaises(result) ==
    \E i \in 1..Len(result.pages) :
        /\ result.pages[i].hasTexts
        /\ \E j \in 1..Len(result.pages[i].texts) :
               result.pages[i].texts[j].kind # "dict"

EngineFailed(r) ==
    /\ predictCalls[r] > 0
    /\ pc[r] # "predict"
    /\ outcome[r].raised \/ UnpackRaises(outcome[r].result)

\* C5: an exception raised by ocr.predict or while unpacking its result
\* does not escape; the request ends with one response that has
\* success=false and an error, with status 200 or 500, and predict is
\* called once per request at most.
C5_EngineFailureContained ==
    \A r \in Reqs :
        /\ predictCalls[r] <= 1
        /\ EngineFailed(r) =>
              /\ Done(r)
              /\ ~resp[r].body.success
              /\ "error" \in resp[r].body.keys
              /\ resp[r].status \in {200, 500}

C5_Witness ==
    /\ \E r \in Reqs : Done(r) /\ outcome[r].raised
    /\ \E r \in Reqs : Done(r) /\ ~outcome[r].raised
                               /\ UnpackRaises(outcome[r].result)

Blank(text) == \A i \in 1..Len(text) : text[i] \in Whitespace

\* the engine found no text: no result, or pages whose text lists are
\* absent, empty or hold blank strings only
NoTextFound(result) ==
    \/ result.isNone
    \/ \A i \in 1..Len(result.pages) :
          \/ ~result.pages[i].hasTexts
          \/ \A j \in 1..Len(result.pages[i].texts) :
                LET item == result.pages[i].texts[j] IN
                /\ item.kind = "dict"
                /\ "text" \in item.has
                /\ Blank(item.text)

\* C6: when the engine detects no text the result is success=true with
\* text "", confidence 0.0 and details [].
C6_NoTextIsEmptySuccess ==
    (uout.ran /\ NoTextFound(uin)) =>
        /\ uout.body.success
        /\ uout.body.text = <<>>
        /\ uout.body.confidence = Zero
        /\ uout.body.details = <<>>

C6_Witness ==
    /\ uout.ran
    /\ NoTextFound(uin)
    /\ Len(uin.pages) = 2
    /\ ~uin.pages[1].hasTexts
    /\ uin.pages[2].hasTexts
    /\ Len(uin.pages[2].texts) = 2
    /\ uin.pages[2].texts[1].text = <<" ">>

SameOutcome(a, b) ==
    /\ a.status = b.status
    /\ a.body.success = b.body.success
    /\ a.body.text = b.body.text
    /\ a.body.details = b.body.details

\* C7 as stated: the same image bytes sent as multipart field 'image' and
\* as base64 JSON get the same status, text and details.
C7_SameOutcomeBothEncodings ==
    (Done(1) /\ Done(2)) => SameOutcome(resp[1], resp[2])

\* C7 as amended: the same holds when the multipart file name is not empty
\* and ends in an allowed extension and both payloads are within the size
\* limit (with a deterministic engine and temp-file save).
C7_SameOutcomeWhenNameAndSizePass ==
    ( /\ Done(1) /\ Done(2)
      /\ pair.filename # <<>>
      /\ EndsInAllowedExtension(pair.filename)
      /\ req[1].length <= MAX_CONTENT_LENGTH
      /\ req[2].length <= MAX_CONTENT_LENGTH )
    => SameOutcome(resp[1], resp[2])

C7_Witness ==
    /\ Done(1) /\ Done(2)
    /\ pair.filename = Str_a_PNG
    /\ req[1].length <= MAX_CONTENT_LENGTH
    /\ req[2].length <= MAX_CONTENT_LENGTH
    /\ predictCalls[1] = 1 /\ predictCalls[2] = 1
    /\ resp[1].body.success /\ resp[2].body.success
    /\ resp[1].body.text = <<"a", " ", "b", " ">>
    /\ resp[2].body.text = <<"a", " ", "b", " ">>

\* the engine's text items in page and item order
AllItems(result) ==
    LET n == Len(result.pages)
        flat[i \in 0..n] ==
            IF i = 0 THEN <<>>
            ELSE flat[i - 1] \o (IF result.pages[i].hasTexts
                                 THEN result.pages[i].texts ELSE <<>>)
    IN  IF result.isNone THEN <<>> ELSE flat[n]

NonBlankItem(item) == ~Blank(IF "text" \in item.has THEN item.text ELSE <<>>)

\* text is parts[1] ' ' parts[2] ' ' ... parts[n]
IsSpaceJoin(text, parts) ==
    LET n == Len(parts)
        start[i \in 1..n] ==
            IF i = 1 THEN 0 ELSE start[i - 1] + Len(parts[i - 1]) + 1
    IN  IF n = 0 THEN text = <<>>
        ELSE /\ Len(text) = start[n] + Len(parts[n])
             /\ \A i \in 1..n :
                   /\ SubSeq(text, start[i] + 1, start[i] + Len(parts[i])) = parts[i]
                   /\ i > 1 => text[start[i]] = " "

\* the fraction c is the mean of the confidences of details
IsMean(c, details) ==
    LET n == Len(details)
        total[i \in 0..n] ==
            IF i = 0 THEN 0 ELSE total[i - 1] + details[i].confidence
    IN  IF n = 0 THEN c = Zero
        ELSE c.den > 0 /\ c.num * n = total[n] * c.den

\* C8: in a success result details are the engine's non-blank text items
\* in page and item order, text is their texts joined by single spaces and
\* confidence is the mean of their confidences, 0.0 when there are none.
C8_DetailsTextAndMean ==
    (uout.ran /\ uout.body.success) =>
        LET kept == SelectSeq(AllItems(uin), NonBlankItem)
            d == uout.body.details
        IN  /\ Len(d) = Len(kept)
            /\ \A i \in 1..Len(d) :
                  /\ d[i].text = kept[i].text
                  /\ d[i].confidence =
                        (IF "score" \in kept[i].has THEN kept[i].score ELSE 0)
                  /\ d[i].bbox =
                        (IF "bbox" \in kept[i].has THEN kept[i].bbox ELSE <<>>)
            /\ IsSpaceJoin(uout.body.text, [i \in 1..Len(d) |-> d[i].text])
            /\ IsMean(uout.body.confidence, d)

C8_Witness ==
    /\ uout.ran /\ uout.body.success
    /\ Len(uin.pages) = 2
    /\ Len(uout.body.details) = 2
    /\ Len(AllItems(uin)) = 4
    /\ uout.body.text = <<"b", " ", " ", "a">>
    /\ uout.body.confidence = [num |-> 90, den |-> 2]

\* C9: GET /health answers HTTP 200 with one fixed body in every state of
\* the server, whatever /ocr requests have ended or are in progress.
C9_HealthIsFixed ==
    health.served =>
        /\ health.status = 200
        /\ health.body.status = "healthy"
        /\ health.body.service = "paddle-ocr-api"
        /\ health.body.version = "1.0.0"
        /\ health.body.gpu_enabled = FALSE

C9_Witness ==
    /\ health.served
    /\ \E r \in Reqs : pc[r] = "predict"
    /\ \E r \in Reqs : Done(r) /\ ~resp[r].body.success

\* C10: at most one request is inside ocr.predict at any time.
C10_PredictIsSerial ==
    Cardinality({ r \in Reqs : pc[r] = "predict" }) <= 1

====
